---- MODULE Spec2Model ----
(***************************************************************************)
(* A model of correct.py: the Gray World colour-cast corrector             *)
(* correct_color_cast (lines 8-57) and the ColorCorrectorApp shell that     *)
(* loads an image, recomputes the correction on every slider change and    *)
(* saves the corrected buffer (lines 60-154).                              *)
(*                                                                         *)
(* Images are numpy uint8 arrays of shape (h, w, 3): a record              *)
(* [h, w, data] whose data is the row-major buffer, three samples (b, g,   *)
(* r) per pixel.  The arithmetic of lines 26-47 is done by numpy in IEEE   *)
(* single precision; a float32 is modelled as <<m, e>>, the value m * 2^e  *)
(* with 2^23 <= m < 2^24 (or <<0, 0>> for zero), and every operation       *)
(* rounds to nearest, ties to even, as the hardware does.  All             *)
(* intermediate integers stay below 2^31.                                  *)
(***************************************************************************)
EXTENDS Integers, Sequences, FiniteSets, TLC

\* ------------------------------------------------------------------------
\* Bounds of the model.

\* Largest image height explored.
MaxH == 2

\* Largest image width explored.
MaxW == 3

\* ------------------------------------------------------------------------
\* IEEE-754 single precision, as used by image.astype(np.float32).

Pow2(n) == 2 ^ n

RECURSIVE BitLen(_)
\* Number of binary digits of a natural number.
BitLen(n) == IF n = 0 THEN 0 ELSE 1 + BitLen(n \div 2)

F32Zero == <<0, 0>>

\* The float32 nearest to (n + f) * 2^e, where n is a natural number below
\* 2^31 and 0 <= f < 1 is a fraction known only to be zero (sticky = FALSE)
\* or not (sticky = TRUE; n then has more than 24 bits): round to nearest,
\* ties to even.
F32Round(n, sticky, e) ==
    IF n = 0 THEN F32Zero
    ELSE LET len == BitLen(n) IN
         IF len <= 24
         THEN <<n * Pow2(24 - len), e - (24 - len)>>
         ELSE LET d    == len - 24
                  kept == n \div Pow2(d)
                  rem  == n % Pow2(d)
                  half == Pow2(d - 1)
                  up   == \/ rem > half
                          \/ rem = half /\ sticky
                          \/ rem = half /\ ~sticky /\ kept % 2 = 1
                  m    == IF up THEN kept + 1 ELSE kept
              IN  IF m = Pow2(24) THEN <<Pow2(23), e + d + 1>>
                  ELSE <<m, e + d>>

RECURSIVE LongDiv(_, _, _, _)
\* Binary long division: <<quotient, remainder>> of (q * den + r) * 2^t by
\* den, given the quotient q and remainder r found so far.
LongDiv(q, r, den, t) ==
    IF t = 0 THEN <<q, r>>
    ELSE IF 2 * r >= den
         THEN LongDiv(2 * q + 1, 2 * r - den, den, t - 1)
         ELSE LongDiv(2 * q, 2 * r, den, t - 1)

\* The float32 nearest to (num / den) * 2^e, for naturals num < 2^24 and
\* 0 < den < 2^26: the quotient is developed to 26 or 27 bits and rounded.
F32Quot(num, den, e) ==
    IF num = 0 THEN F32Zero
    ELSE LET t  == 26 - (BitLen(num) - BitLen(den))
             qr == LongDiv(num \div den, num % den, den, t)
         IN  F32Round(qr[1], qr[2] # 0, e - t)

\* float32 + float32, both non-negative.
F32Add(a, b) ==
    IF a[1] = 0 THEN b
    ELSE IF b[1] = 0 THEN a
    ELSE LET hi == IF a[2] >= b[2] THEN a ELSE b
             lo == IF a[2] >= b[2] THEN b ELSE a
             d  == hi[2] - lo[2]
         IN  IF d <= 3
             THEN F32Round(hi[1] * Pow2(d) + lo[1], FALSE, lo[2])
             ELSE IF d > 27
             THEN hi
             ELSE \* three guard bits; the bits of lo below them are sticky
                  F32Round(hi[1] * 8 + lo[1] \div Pow2(d - 3),
                           lo[1] % Pow2(d - 3) # 0, hi[2] - 3)

\* float32 / float32, both positive.
F32Div(a, b) == F32Quot(a[1], b[1], a[2] - b[2])

\* float32(v) * x for a sample v in 0..255 (exact as a float32) and a
\* float32 x.  The product, of up to 32 bits, is hi * 2^12 + lo; its top 27
\* bits are kept and the bits below them are sticky.
F32MulSample(v, x) ==
    IF v = 0 \/ x[1] = 0 THEN F32Zero
    ELSE LET pl  == v * (x[1] % 4096)
             hi  == v * (x[1] \div 4096) + pl \div 4096
             lo  == pl % 4096
             s   == IF BitLen(hi) > 15 THEN BitLen(hi) - 15 ELSE 0
         IN  F32Round(hi * Pow2(12 - s) + lo \div Pow2(s),
                      lo % Pow2(s) # 0, x[2] + s)

\* ------------------------------------------------------------------------
\* State.

VARIABLES
    promotion,            \* how the installed numpy promotes float32 with 3.0
    heap,                 \* the arrays alive during one call: reference -> array
    strength,             \* the call's strength argument, in hundredths
    pc,                   \* where the calling code is
    result,               \* the reference correct_color_cast returned
    original_cv_image,    \* ColorCorrectorApp.original_cv_image
    corrected_cv_image,   \* ColorCorrectorApp.corrected_cv_image
    slider,               \* strength_slider.get()
    slider_state,         \* strength_slider["state"]
    save_state,           \* btn_save["state"]
    written               \* the array the last cv2.imwrite stored

vars == <<promotion, heap, strength, pc, result, original_cv_image,
          corrected_cv_image, slider, slider_state, save_state, written>>

callVars == <<heap, strength, pc, result>>

appVars == <<original_cv_image, corrected_cv_image, slider, slider_state,
             save_state, written>>

\* Python's None where an array is expected: told apart from every image
\* by having no rows.
None == [h |-> 0, w |-> 0, data |-> <<>>]

\* Python's None where a reference is expected.
NoRef == "None"

\* The denominator of a strength: strength_slider.get() / 100.0.  A
\* strength in this model is a whole number of hundredths.
StrengthDen == 100

\* numpy before 2.0 evaluates float32_scalar / 3.0 in float64 ("legacy");
\* numpy 2 (NEP 50) keeps float32 ("nep50").  Which one runs depends on
\* the installation, so both are explored.
Promotions == {"legacy", "nep50"}

\* ------------------------------------------------------------------------
\* Images.

\* Samples of channel c (0 = b, 1 = g, 2 = r) of an image: cv2.split.
split(image, c) ==
    [i \in 1..(image.h * image.w) |-> image.data[3 * (i - 1) + c + 1]]

RECURSIVE SumSeq(_, _)
\* Sum of the first n elements of a sequence.
SumSeq(s, n) == IF n = 0 THEN 0 ELSE s[n] + SumSeq(s, n - 1)

\* np.mean of one float32 channel: the sum of the samples is exact in
\* float32 (it is far below 2^24) and is divided by the pixel count.
mean(channel) == F32Quot(SumSeq(channel, Len(channel)), Len(channel), 0)

\* The float32 sum avg_b + avg_g + avg_r, added left to right.
SumOfMeans(avg_b, avg_g, avg_r) == F32Add(F32Add(avg_b, avg_g), avg_r)

\* A variant of lines 33-40 whose avg_gray is the sum of the three means,
\* the division by 3.0 left out.
scale_to_sum(mean_sum, avg_c) == F32Div(mean_sum, avg_c)

\* avg_gray / avg_c as it reaches the float32 multiplication, where
\* avg_gray = mean_sum / 3.0.
\*  nep50:  avg_gray is rounded to float32, and so is the quotient.
\*  legacy: avg_gray and the quotient are float64 and the quotient is
\*          rounded to float32 when numpy multiplies the float32 channel by
\*          it.  The two float64 roundings move mean_sum / (3 * avg_c) by
\*          less than 2^-51 of its value; a float32 rounding boundary has
\*          25 significant bits, and the quotient of a 24-bit by a 26-bit
\*          integer is either more than 2^-51 away from it or an exact
\*          float32, so the result is the float32 nearest to the exact
\*          quotient.
scale(mean_sum, avg_c) ==
    IF promotion = "legacy"
    THEN F32Quot(mean_sum[1], 3 * avg_c[1], mean_sum[2] - avg_c[2])
    ELSE F32Div(F32Quot(mean_sum[1], 3, mean_sum[2]), avg_c)

\* A variant of line 47 without np.clip: the product goes to the
\* conversion as it is.
clip_absent(x) == x

\* np.clip(x, 0, 255) of a non-negative float32.
clip(x) ==
    IF x[1] # 0 /\ (x[2] >= -15 \/ (x[2] = -16 /\ x[1] >= 255 * Pow2(16)))
    THEN <<255 * Pow2(16), -16>>
    ELSE x

\* A variant of line 47 whose conversion rounds to the nearest integer
\* instead of dropping the fraction.
astype_uint8_rint(x) ==
    IF x[1] = 0 \/ x[2] < -30 THEN 0
    ELSE IF x[2] >= 8 THEN 0
    ELSE IF x[2] >= 0 THEN ((x[1] % 256) * Pow2(x[2])) % 256
    ELSE ((x[1] + Pow2(-x[2] - 1)) \div Pow2(-x[2])) % 256

\* .astype(np.uint8) of a non-negative float32: the fraction is dropped
\* (truncation toward zero).  After clip the value is at most 255; beyond
\* that the conversion keeps the low eight bits of the integer part.
astype_uint8(x) ==
    IF x[1] = 0 \/ x[2] < -30 THEN 0
    ELSE IF x[2] >= 8 THEN 0
    ELSE IF x[2] >= 0 THEN ((x[1] % 256) * Pow2(x[2])) % 256
    ELSE (x[1] \div Pow2(-x[2])) % 256

\* Lines 26-47: the fully corrected image, for an image none of whose
\* channel means is zero.
full_corrected_img(image) ==
    LET avg_b    == mean(split(image, 0))
        avg_g    == mean(split(image, 1))
        avg_r    == mean(split(image, 2))
        mean_sum == SumOfMeans(avg_b, avg_g, avg_r)
        scale_b  == scale(mean_sum, avg_b)
        scale_g  == scale(mean_sum, avg_g)
        scale_r  == scale(mean_sum, avg_r)
        scaleOf(c) == IF c = 0 THEN scale_b ELSE IF c = 1 THEN scale_g
                      ELSE scale_r
    IN  [image EXCEPT !.data =
            [i \in 1..Len(image.data) |->
                astype_uint8(clip(F32MulSample(image.data[i],
                                               scaleOf((i - 1) % 3))))]]

\* A variant of line 55 whose blend drops the fraction instead of
\* rounding it.
saturate_cast_floor(num, den) ==
    LET fl == num \div den
    IN  IF fl < 0 THEN 0 ELSE IF fl > 255 THEN 255 ELSE fl

\* cv2's saturate_cast<uchar>(v) for v = num / den, den > 0: cvRound
\* (nearest integer, a half to the even neighbour), then 0..255.
saturate_cast(num, den) ==
    LET fl  == (2 * num + den) \div (2 * den)
        rnd == IF (2 * num + den) % (2 * den) = 0 /\ fl % 2 # 0
               THEN fl - 1 ELSE fl
    IN  IF rnd < 0 THEN 0 ELSE IF rnd > 255 THEN 255 ELSE rnd

\* A variant of line 55 with the two weights exchanged.
addWeighted_exchanged(src1, alpha, src2, beta) ==
    [src1 EXCEPT !.data =
        [i \in 1..Len(src1.data) |->
            saturate_cast(beta * src1.data[i] + alpha * src2.data[i],
                          StrengthDen)]]

\* cv2.addWeighted(src1, alpha, src2, beta, 0) with alpha and beta given
\* in hundredths.
addWeighted(src1, alpha, src2, beta) ==
    [src1 EXCEPT !.data =
        [i \in 1..Len(src1.data) |->
            saturate_cast(alpha * src1.data[i] + beta * src2.data[i],
                          StrengthDen)]]

\* A variant of line 35 with "and" for "or": only an image whose three
\* means are all zero is handed back.
all_means_zero(avg_b, avg_g, avg_r) ==
    avg_b = F32Zero /\ avg_g = F32Zero /\ avg_r = F32Zero

\* Line 35: avg_b == 0 or avg_g == 0 or avg_r == 0.
any_mean_zero(avg_b, avg_g, avg_r) ==
    avg_b = F32Zero \/ avg_g = F32Zero \/ avg_r = F32Zero

\* A variant of lines 22-23 and 50-51 with the two short cuts exchanged:
\* strength 0 gives the full correction and strength 1.0 the input.
correct_color_cast_exchanged(image, s) ==
    IF any_mean_zero(mean(split(image, 0)), mean(split(image, 1)),
                     mean(split(image, 2)))
    THEN [array |-> image, is_input |-> TRUE]
    ELSE IF s = 0
    THEN [array |-> full_corrected_img(image), is_input |-> FALSE]
    ELSE IF s = StrengthDen
    THEN [array |-> image, is_input |-> TRUE]
    ELSE [array |-> addWeighted(image, StrengthDen - s,
                                full_corrected_img(image), s),
          is_input |-> FALSE]

\* Lines 8-57.  The value is [array, is_input]: the array returned, and
\* whether it is the very object passed in (return image) or a new one.
correct_color_cast(image, s) ==
    IF s = 0
    THEN [array |-> image, is_input |-> TRUE]
    ELSE IF any_mean_zero(mean(split(image, 0)), mean(split(image, 1)),
                          mean(split(image, 2)))
    THEN [array |-> image, is_input |-> TRUE]
    ELSE IF s = StrengthDen
    THEN [array |-> full_corrected_img(image), is_input |-> FALSE]
    ELSE [array |-> addWeighted(image, StrengthDen - s,
                                full_corrected_img(image), s),
          is_input |-> FALSE]

\* ------------------------------------------------------------------------
\* Inputs explored.

\* Pixels (b, g, r) images are built from.
Pixels == { <<100, 150, 200>>, <<0, 0, 0>>, <<200, 0, 50>>,
            <<100, 100, 100>>, <<200, 200, 200>>, <<250, 20, 90>> }

\* The h x w image whose first j pixels are p and whose other pixels are q.
TwoTone(h, w, p, q, j) ==
    [h |-> h, w |-> w,
     data |-> [i \in 1..(3 * h * w) |->
                 IF (i - 1) \div 3 < j THEN p[((i - 1) % 3) + 1]
                 ELSE q[((i - 1) % 3) + 1]]]

Images ==
    UNION { { TwoTone(h, w, p, q, j) : p \in Pixels, q \in Pixels,
                                       j \in 1..(h * w) } :
            h \in 1..MaxH, w \in 1..MaxW }

\* Strengths passed to correct_color_cast, in hundredths.
Strengths == {-50, 0, 25, 50, 90, 100, 150}

\* ------------------------------------------------------------------------
\* A caller of correct_color_cast.

\* References of the arrays of one call: the caller's image, and the array
\* the call may allocate.
InputRef == "image"
NewRef == "new"

\* Values a caller stores into an array after the call.
WriteValues == {0, 255}

Init ==
    /\ promotion \in Promotions
    /\ \E image \in Images : heap = (InputRef :> image) @@ (NewRef :> None)
    /\ strength \in Strengths
    /\ pc = "ready"
    /\ result = NoRef
    /\ original_cv_image = None
    /\ corrected_cv_image = None
    /\ slider = 0
    /\ slider_state = "disabled"
    /\ save_state = "disabled"
    /\ written = None

\* result = correct_color_cast(image, strength)
Call ==
    /\ pc = "ready"
    /\ LET r == correct_color_cast(heap[InputRef], strength) IN
         IF r.is_input
         THEN /\ result' = InputRef
              /\ heap' = heap
         ELSE /\ result' = NewRef
              /\ heap' = [heap EXCEPT ![NewRef] = r.array]
    /\ pc' = "returned"
    /\ UNCHANGED <<promotion, strength, appVars>>

\* result[...] = v: the caller stores into the array it was handed back.
WriteResult ==
    /\ pc = "returned"
    /\ \E i \in {1, Len(heap[result].data)} :
         \E v \in WriteValues \ {heap[result].data[i]} :
           heap' = [heap EXCEPT ![result].data[i] = v]
    /\ pc' = "wrote_result"
    /\ UNCHANGED <<promotion, strength, result, appVars>>

\* image[...] = v: the caller stores into the array it passed in.
WriteInput ==
    /\ pc = "returned"
    /\ \E i \in {1, Len(heap[InputRef].data)} :
         \E v \in WriteValues \ {heap[InputRef].data[i]} :
           heap' = [heap EXCEPT ![InputRef].data[i] = v]
    /\ pc' = "wrote_input"
    /\ UNCHANGED <<promotion, strength, result, appVars>>

Next == Call \/ WriteResult \/ WriteInput

Spec == Init /\ [][Next]_vars

\* ------------------------------------------------------------------------
\* ColorCorrectorApp.

\* What cv2.imread returns for the files a user can pick: an image, or
\* None for a file it cannot decode.
Files == { TwoTone(MaxH, MaxW, p, p, 1) : p \in Pixels } \cup {None}

\* Positions the user drags the strength slider to (from_=0, to=100).
SliderPositions == {0, 25, 50, 90, 100}

\* strength_slider.set(90) is called while the scale is disabled.  Tk
\* ignores set on a disabled scale, which leaves the scale at from_ = 0; a
\* toolkit honouring it leaves 90.
InitialSliderValues == {0, 90}

\* Lines 124-129, as the new value of corrected_cv_image.
apply_correction(original, corrected, position) ==
    IF original = None THEN corrected
    ELSE correct_color_cast(original, position).array

AppInit ==
    /\ promotion \in Promotions
    /\ heap = (InputRef :> None) @@ (NewRef :> None)
    /\ strength = 0
    /\ pc = "mainloop"
    /\ result = NoRef
    /\ original_cv_image = None
    /\ corrected_cv_image = None
    /\ slider \in InitialSliderValues
    /\ slider_state = "disabled"
    /\ save_state = "disabled"
    /\ written = None

\* Lines 107-122.  The dialog is cancelled, or a file is picked and read.
load_image ==
    \/ UNCHANGED vars
    \/ \E decoded \in Files :
         /\ original_cv_image' = decoded
         /\ IF decoded = None
            THEN \* ValueError, caught at line 121
                 UNCHANGED <<corrected_cv_image, slider_state, save_state>>
            ELSE /\ save_state' = "normal"
                 /\ slider_state' = "normal"
                 /\ corrected_cv_image' =
                        apply_correction(decoded, corrected_cv_image, slider)
         /\ UNCHANGED <<promotion, callVars, slider, written>>

\* The user moves the enabled slider: Tk stores the position and calls
\* apply_correction (command=, line 94).
slider_moved ==
    /\ slider_state = "normal"
    /\ \E position \in SliderPositions :
         /\ slider' = position
         /\ corrected_cv_image' =
                apply_correction(original_cv_image, corrected_cv_image,
                                 position)
    /\ UNCHANGED <<promotion, callVars, original_cv_image, slider_state,
                   save_state, written>>

\* Lines 145-154, reachable once the button is enabled.  Nothing is
\* written when there is no corrected image or the dialog is cancelled.
save_image ==
    /\ save_state = "normal"
    /\ \/ UNCHANGED vars
       \/ /\ corrected_cv_image # None
          /\ written' = corrected_cv_image
          /\ UNCHANGED <<promotion, callVars, original_cv_image,
                         corrected_cv_image, slider, slider_state,
                         save_state>>

AppNext == load_image \/ slider_moved \/ save_image

AppSpec == AppInit /\ [][AppNext]_vars

\* ------------------------------------------------------------------------
\* Properties.

\* The caller's image as passed, and the array handed back.
Input == heap[InputRef]
Output == heap[result]

\* The exact sum of the samples of channel c.
ChannelSum(image, c) == SumSeq(split(image, c), image.h * image.w)

\* Some channel is zero at every pixel.
ZeroChannel(image) ==
    \E c \in 0..2 : \A i \in 1..(image.h * image.w) : split(image, c)[i] = 0

\* The three channel means are equal and non-zero.
Balanced(image) ==
    /\ ChannelSum(image, 0) = ChannelSum(image, 1)
    /\ ChannelSum(image, 1) = ChannelSum(image, 2)
    /\ ChannelSum(image, 0) > 0

\* v * avg_gray / avg_c of sample i in exact arithmetic is
\* ExactNum / ExactDen: v * (S_b + S_g + S_r) / (3 * S_c), the pixel count
\* cancelling.
ExactNum(image, i) ==
    image.data[i] * (ChannelSum(image, 0) + ChannelSum(image, 1)
                     + ChannelSum(image, 2))
ExactDen(image, i) == 3 * ChannelSum(image, (i - 1) % 3)

Min255(n) == IF n > 255 THEN 255 ELSE n

Abs(n) == IF n < 0 THEN -n ELSE n

\* trunc(min(255, q)) for the exact quotient q of sample i.
ExactTrunc(image, i) == Min255(ExactNum(image, i) \div ExactDen(image, i))

\* The values trunc(min(255, p)) takes for p within 1/256 of the exact
\* quotient q of sample i.
NearTrunc(image, i) ==
    LET n == ExactNum(image, i)
        d == ExactDen(image, i)
        k == n \div d
        r == n % d
    IN  {Min255(k)}
        \cup (IF r * Pow2(8) <= d /\ k >= 1 THEN {Min255(k - 1)} ELSE {})
        \cup (IF (d - r) * Pow2(8) <= d THEN {Min255(k + 1)} ELSE {})

\* C1: correct_color_cast(I, 0) returns an image equal to I sample for
\* sample.
C1_IdentityAtZero ==
    (pc = "returned" /\ strength = 0) => Output = Input

\* C1 is exercised on an image that full correction would change.
C1_Witness ==
    /\ pc = "returned" /\ strength = 0
    /\ ~ZeroChannel(Input)
    /\ full_corrected_img(Input) # Input
    /\ Output = Input

\* C2: an image with a channel that is zero at every pixel is returned
\* unchanged for every strength s with 0 < s <= 1.
C2_ZeroChannelUnchanged ==
    (pc = "returned" /\ strength > 0 /\ strength <= StrengthDen
        /\ ZeroChannel(Input))
    => Output = Input

\* C2 is exercised on an image with a zero channel and a non-zero one.
C2_Witness ==
    /\ pc = "returned" /\ strength > 0 /\ strength < StrengthDen
    /\ ZeroChannel(Input)
    /\ \E i \in 1..Len(Input.data) : Input.data[i] # 0
    /\ Output = Input

\* C3: the result is a buffer independent of the input: a later write to
\* the returned image leaves the caller's image as it was, and a later
\* write to the caller's image leaves the returned image as it was.
C3_ResultIndependent ==
    [][/\ (pc = "returned" /\ pc' = "wrote_result")
            => heap'[InputRef] = heap[InputRef]
       /\ (pc = "returned" /\ pc' = "wrote_input")
            => heap'[result] = heap[result]]_vars

\* C4: a strength above 1 gives the result of strength 1.0, and a strength
\* below 0 gives the result of strength 0.0.
C4_StrengthClamped ==
    /\ (pc = "returned" /\ strength > StrengthDen)
         => Output = correct_color_cast(Input, StrengthDen).array
    /\ (pc = "returned" /\ strength < 0)
         => Output = correct_color_cast(Input, 0).array

\* C5: for a strength in [0, 1] every output sample is an integer in
\* 0..255, and a sample whose scaled value exceeds 255 comes out as 255.
C5_OutputSaturates ==
    (pc = "returned" /\ strength >= 0 /\ strength <= StrengthDen)
    => \A i \in 1..Len(Output.data) :
         /\ Output.data[i] \in 0..255
         /\ (strength = StrengthDen /\ ~ZeroChannel(Input)
               /\ ExactNum(Input, i) >= 256 * ExactDen(Input, i))
            => Output.data[i] = 255

\* C5 is exercised by a full correction that scales a sample past 255.
C5_Witness ==
    /\ pc = "returned" /\ strength = StrengthDen /\ ~ZeroChannel(Input)
    /\ \E i \in 1..Len(Output.data) :
         /\ ExactNum(Input, i) >= 256 * ExactDen(Input, i)
         /\ Output.data[i] = 255

\* C6: for strengths 0 <= s1 <= s2 <= 1 and every sample position, the
\* result at s1 is no farther from the input than the result at s2.
C6_MonotonicBlend ==
    (pc = "returned" /\ strength >= 0 /\ strength <= StrengthDen)
    => \A s1 \in {s \in 0..strength : s % 10 = 0} :
         LET at_s1 == correct_color_cast(Input, s1).array IN
         \A i \in 1..Len(Input.data) :
             Abs(at_s1.data[i] - Input.data[i])
                 <= Abs(Output.data[i] - Input.data[i])

\* C6 is exercised by two strengths whose results differ in distance.
C6_Witness ==
    /\ pc = "returned" /\ strength > 0 /\ strength < StrengthDen
    /\ \E s1 \in {s \in Strengths : 0 < s /\ s < strength} :
         \E i \in 1..Len(Input.data) :
             Abs(correct_color_cast(Input, s1).array.data[i] - Input.data[i])
                 < Abs(Output.data[i] - Input.data[i])

\* C7 as stated: an image whose channel means are equal and non-zero is
\* returned by full correction equal to itself at every sample.
C7_BalancedUnchanged ==
    (pc = "returned" /\ strength = StrengthDen /\ Balanced(Input))
    => Output = Input

\* C7 as amended: an image whose channel means are equal and non-zero is
\* returned by full correction unchanged up to rounding: every output
\* sample is the input sample or one less.
C7_BalancedUpToRounding ==
    (pc = "returned" /\ strength = StrengthDen /\ Balanced(Input))
    => /\ Output.h = Input.h /\ Output.w = Input.w
       /\ \A i \in 1..Len(Input.data) :
            Output.data[i] \in {Input.data[i] - 1, Input.data[i]}

\* C7 is exercised by a balanced image that comes back one less.
C7_Witness ==
    /\ pc = "returned" /\ strength = StrengthDen /\ Balanced(Input)
    /\ \E i \in 1..Len(Input.data) : Output.data[i] = Input.data[i] - 1

\* C8 as stated: at strength 1.0 with non-zero channel means every output
\* sample equals trunc(min(255, v * avg_gray / avg_c)).
C8_FullCorrectionExact ==
    (pc = "returned" /\ strength = StrengthDen /\ ~ZeroChannel(Input))
    => \A i \in 1..Len(Input.data) :
         Output.data[i] = ExactTrunc(Input, i)

\* C8 as amended: at strength 1.0 with non-zero channel means every output
\* sample equals trunc(min(255, p)) for the single-precision product p,
\* which is within 1/256 of v * avg_gray / avg_c: the value is clipped,
\* then truncated, not rounded, and it differs from the truncated exact
\* quotient only where that quotient is within 1/256 of an integer.  With
\* channel means 100/150/200 a pixel (100,150,200) maps to (150,150,150).
C8_FullCorrectionFloat ==
    (pc = "returned" /\ strength = StrengthDen /\ ~ZeroChannel(Input))
    => /\ \A i \in 1..Len(Input.data) :
            Output.data[i] \in NearTrunc(Input, i)
       /\ \A px \in 1..(Input.h * Input.w) :
            (/\ ChannelSum(Input, 0) = 100 * Input.h * Input.w
             /\ ChannelSum(Input, 1) = 150 * Input.h * Input.w
             /\ ChannelSum(Input, 2) = 200 * Input.h * Input.w
             /\ SubSeq(Input.data, 3 * px - 2, 3 * px) = <<100, 150, 200>>)
            => SubSeq(Output.data, 3 * px - 2, 3 * px) = <<150, 150, 150>>

\* C8 is exercised by a sample whose exact quotient is a whole number and
\* which comes out one less, beside a sample whose quotient has a
\* fraction of a half or more and is truncated.
C8_Witness ==
    /\ pc = "returned" /\ strength = StrengthDen /\ ~ZeroChannel(Input)
    /\ \E i \in 1..Len(Input.data) :
         /\ ExactNum(Input, i) % ExactDen(Input, i) = 0
         /\ Output.data[i] = ExactTrunc(Input, i) - 1
    /\ \E i \in 1..Len(Input.data) :
         /\ 2 * (ExactNum(Input, i) % ExactDen(Input, i)) >= ExactDen(Input, i)
         /\ ExactNum(Input, i) < 255 * ExactDen(Input, i)
         /\ Output.data[i] = ExactTrunc(Input, i)

\* C9: for 0 < strength < 1 with non-zero channel means every output
\* sample is (1 - strength) * original + strength * fully_corrected
\* rounded to the nearest integer, fully_corrected being the 8-bit sample
\* of the strength-1.0 result; with channel means 100/150/200 a pixel
\* (100,150,200) maps to (125,150,175) at strength 0.5.
C9_BlendRounds ==
    (pc = "returned" /\ strength > 0 /\ strength < StrengthDen
        /\ ~ZeroChannel(Input))
    => LET full == correct_color_cast(Input, StrengthDen).array IN
       /\ \A i \in 1..Len(Input.data) :
            /\ Output.data[i] \in 0..255
            /\ 2 * Abs(StrengthDen * Output.data[i]
                       - ((StrengthDen - strength) * Input.data[i]
                          + strength * full.data[i])) <= StrengthDen
       /\ \A px \in 1..(Input.h * Input.w) :
            (/\ 2 * strength = StrengthDen
             /\ ChannelSum(Input, 0) = 100 * Input.h * Input.w
             /\ ChannelSum(Input, 1) = 150 * Input.h * Input.w
             /\ ChannelSum(Input, 2) = 200 * Input.h * Input.w
             /\ SubSeq(Input.data, 3 * px - 2, 3 * px) = <<100, 150, 200>>)
            => SubSeq(Output.data, 3 * px - 2, 3 * px) = <<125, 150, 175>>

\* C9 is exercised by a blend with a sample whose scaled value was clipped
\* to 255 and whose blend has a fraction.
C9_Witness ==
    /\ pc = "returned" /\ strength > 0 /\ strength < StrengthDen
    /\ ~ZeroChannel(Input)
    /\ \E i \in 1..Len(Input.data) :
         /\ ExactNum(Input, i) >= 256 * ExactDen(Input, i)
         /\ ((StrengthDen - strength) * Input.data[i] + strength * 255)
                % StrengthDen # 0
         /\ Output.data[i] # Input.data[i]

\* C10: whenever corrected_cv_image is not None, original_cv_image is not
\* None and corrected_cv_image equals
\* correct_color_cast(original_cv_image, slider / 100).
C10_CorrectedMatchesOriginal ==
    corrected_cv_image # None
    => /\ original_cv_image # None
       /\ corrected_cv_image
              = correct_color_cast(original_cv_image, slider).array
====
